---- MODULE Spec2Model ----
(***************************************************************************)
(* Model of SpeechRecognitionManager (src/js/modules/speechRecognition.js) *)
(* and of the recognition engines (Web Speech API SpeechRecognition         *)
(* objects) it drives.                                                      *)
(*                                                                          *)
(* JavaScript is single threaded: every handler, timer callback and public  *)
(* method runs to completion, so each is one action.  Timers are kept in    *)
(* the order they were scheduled; a timer may fire only if no timer         *)
(* scheduled before it has a delay that is not longer than its own (the     *)
(* ordering setTimeout guarantees).  The engines are the environment: an    *)
(* engine delivers on-start after an accepted start command, results while  *)
(* it runs or drains after stop(), at most one error per run, and on-end    *)
(* when it terminates, with arbitrary latency.                              *)
(*                                                                          *)
(* Not modelled: the engine's lang/continuous/interimResults properties and *)
(* stateManager's language setting (no handler branches on them), and       *)
(* updateConfig (the configuration keeps the values of settings.js).        *)
(***************************************************************************)
EXTENDS Integers, Sequences, FiniteSets, TLC

\* ---- bounds of the model ------------------------------------------------
MaxEngines == 2          \* engine objects alive (referenced or not yet ended) at once
MaxTimers == 2           \* pending one-shot timers
MaxHistory == 2          \* entries in the text history, appended or being converted
MaxErrors == 5           \* value errorCount can reach

\* ---- configuration (settings.js SPEECH_CONFIG) and literals --------------
deadTime == 3000
maxSessionTime == 30000
maxErrorCount == 5
restartDelay == 1000
duplicateCheckTimeout == 1000
StartSettleDelay == 100

Engines == 1..MaxEngines
NoEngine == 0            \* this.recognition = null
NoSession == 0           \* this.sessionId = null

\* ---- texts: sequences of one-character strings ----------------------------
\* "Ni" and "Hao" stand for two Chinese characters, "n" for a plain Latin letter,
\* "i3" for a tone-marked vowel (i with caron), "u:" for a Latin letter that the
\* character class of cleanPinyinFromText does not list (u with diaeresis, the
\* toneless pinyin vowel), " " for white space.
Han == {"Ni", "Hao"}
PinyinLetters == {"n", "i3"}       \* [a-z] and the 24 tone-marked vowels, either case
Latin == PinyinLetters \cup {"u:"}
Blank == {" "}
NoText == << >>

VARIABLES
    recognition,            \* this.recognition: engine id, NoEngine for null
    isRecognizing,          \* this.isRecognizing
    sessionId,              \* this.sessionId
    watchdogTimer,          \* this.watchdogTimer is set (interval armed)
    timeSinceLastResult,    \* Date.now() - this.lastResultTime, capped above deadTime
    timeSinceSessionStart,  \* Date.now() - this.sessionStartTime, capped above maxSessionTime
    errorCount,             \* this.errorCount
    manualStop,             \* this.manualStop
    processedTexts,         \* this.processedTexts
    pinyinConverter,        \* this.pinyinConverter is set
    timers,                 \* pending setTimeout callbacks, in scheduling order
    conversions,            \* processFinalResult calls suspended at the await
    history,                \* stateManager text history
    engState,               \* per engine: "none", "idle", "starting", "running", "stopping", "ending"
    engCurrent,             \* per engine: its latest on-start allocated the current sessionId
    engStopReq,             \* per engine: stop()/destroy() of the caller force-stopped this run
    halted,                 \* "stop": stop() returned, "threshold": handleError reached
                            \* maxErrorCount, "destroyed": destroy() returned; "no" once
                            \* start()/changeLanguage() is called (or, where a
                            \* specification asks for it, at the next on-start)
    wdRestartPending,       \* the watchdog triggered safeRestart, no on-start since
    consecutiveErrors,      \* on-error events since the latest on-start
    lastOp,                 \* what the latest handler did (observation record)
    observe                 \* the observation variables a specification records

vars == <<recognition, isRecognizing, sessionId, watchdogTimer, timeSinceLastResult,
          timeSinceSessionStart, errorCount, manualStop, processedTexts, pinyinConverter,
          timers, conversions, history, engState, engCurrent, engStopReq, halted,
          wdRestartPending, consecutiveErrors, lastOp, observe>>

Min(a, b) == IF a < b THEN a ELSE b

\* ---- pure text functions --------------------------------------------------
\* Utils.trimChinese: boundary white space is dropped.
RECURSIVE TrimLeft(_)
TrimLeft(t) == IF t # << >> /\ Head(t) \in Blank THEN TrimLeft(Tail(t)) ELSE t

RECURSIVE TrimRight(_)
TrimRight(t) ==
    IF t # << >> /\ t[Len(t)] \in Blank THEN TrimRight(SubSeq(t, 1, Len(t) - 1)) ELSE t

trimChinese(t) == TrimRight(TrimLeft(t))

\* cleanPinyinFromText: every run of letters of the character class is removed.
RECURSIVE cleanPinyinFromText(_)
cleanPinyinFromText(t) ==
    IF t = << >> THEN << >>
    ELSE IF Head(t) \in PinyinLetters THEN cleanPinyinFromText(Tail(t))
    ELSE <<Head(t)>> \o cleanPinyinFromText(Tail(t))

\* ---- error classification -------------------------------------------------
ErrorCodes == {"not-allowed", "no-speech", "aborted", "audio-capture", "network",
               "timeout", "bad-grammar"}

mapErrorCode(error) ==
    CASE error = "not-allowed" -> "NOT_ALLOWED"
      [] error = "no-speech" -> "NO_SPEECH"
      [] error = "aborted" -> "ABORTED"
      [] error = "audio-capture" -> "AUDIO_CAPTURE"
      [] error = "network" -> "NETWORK"
      [] error = "timeout" -> "TIMEOUT"
      [] OTHER -> "UNKNOWN"

\* Fault: network errors are restarted too.
shouldAutoRestart_alsoNetwork(error) ==
    error \in {"no-speech", "aborted", "audio-capture", "network"}

shouldAutoRestart(error) == error \in {"no-speech", "aborted", "audio-capture"}

\* ---- the state a handler works on -----------------------------------------
\* A handler is a sequence of method calls; each method is an operator from
\* world to world.  The world holds the fields of the manager, the engines
\* and the observation log of the handler in progress.
NoLog == [startOn |-> NoEngine,     \* engine that was given a start command
          startThrew |-> FALSE,     \* that command threw
          nStop |-> 0,              \* engine stop commands issued
          stopOn |-> {},            \* engines that were given a stop command
          created |-> NoEngine,     \* engine object created
          sched |-> << >>,          \* kinds of the timers scheduled
          pub |-> {},               \* events published on the document
          appended |-> 0,           \* history entries appended
          safeRestarts |-> 0,       \* safeRestart calls
          stopCalls |-> 0,          \* stop() calls
          setInterval |-> 0,        \* watchdog intervals set
          clearInterval |-> 0,      \* watchdog intervals cleared
          ret |-> "none",           \* what the public method returned
          error |-> "none"]         \* code given to stateManager.setError

World ==
    [recognition |-> recognition, isRecognizing |-> isRecognizing, sessionId |-> sessionId,
     watchdogTimer |-> watchdogTimer, timeSinceLastResult |-> timeSinceLastResult,
     timeSinceSessionStart |-> timeSinceSessionStart, errorCount |-> errorCount,
     manualStop |-> manualStop, processedTexts |-> processedTexts,
     pinyinConverter |-> pinyinConverter, timers |-> timers, conversions |-> conversions,
     history |-> history, engState |-> engState, engCurrent |-> engCurrent,
     engStopReq |-> engStopReq, observe |-> observe, log |-> NoLog]

Publish(w, event) == [w EXCEPT !.log.pub = @ \cup {event}]

\* setTimeout(callback, delay).  `overtaken` records that an on-start has begun a
\* newer session since the timer was scheduled (observation only, no callback
\* reads it).
Delay(kind) ==
    CASE kind = "settle" -> StartSettleDelay
      [] kind = "dedup" -> duplicateCheckTimeout
      [] OTHER -> restartDelay

setTimeout(w, kind, text) ==
    [w EXCEPT !.timers = Append(@, [kind |-> kind, text |-> text, overtaken |-> FALSE]),
              !.log.sched = Append(@, kind)]

\* A timer can fire once every timer scheduled before it with the same or a
\* shorter delay has fired.
CanFire(i) ==
    /\ i \in 1..Len(timers)
    /\ \A j \in 1..(i - 1) : Delay(timers[j].kind) > Delay(timers[i].kind)

RemoveAt(s, i) == SubSeq(s, 1, i - 1) \o SubSeq(s, i + 1, Len(s))

\* ---- the engine (SpeechRecognition object) --------------------------------
\* stop() on an engine: a started engine begins to terminate, anything else is
\* left alone.  A running engine may still deliver the results of the audio
\* captured so far ("stopping"); one that never delivered on-start only ends.
EngineStop(st) ==
    CASE st = "running" -> "stopping"
      [] st = "starting" -> "ending"
      [] OTHER -> st

Started(st) == st \in {"starting", "running", "stopping", "ending"}

\* Engine ids that a new SpeechRecognition() can take: unused ones, and the id of
\* the handle being replaced when that engine is idle (it becomes unreachable).
FreeEngines(w) ==
    {e \in Engines : w.engState[e] = "none" \/ (e = w.recognition /\ w.engState[e] = "idle")}

NewEngine(w) ==
    IF w.recognition \in FreeEngines(w) THEN w.recognition
    ELSE CHOOSE e \in FreeEngines(w) : \A f \in FreeEngines(w) : e <= f

\* ---- methods of SpeechRecognitionManager ------------------------------------
\* initializeRecognition: new SpeechRecognition(), setupRecognitionConfig,
\* setupEventHandlers.  The platform supports recognition, so it returns true.
initializeRecognition(w) ==
    LET e == NewEngine(w) IN
    [w EXCEPT !.recognition = e,
              !.engState[e] = "idle",
              !.engCurrent[e] = FALSE,
              !.engStopReq[e] = FALSE,
              !.log.created = e]

stopWatchdog(w) ==
    IF w.watchdogTimer
    THEN [w EXCEPT !.watchdogTimer = FALSE, !.log.clearInterval = @ + 1]
    ELSE w

\* Fault: the new interval is set without clearing the one that runs.
startWatchdog_keepsOldInterval(w) ==
    [w EXCEPT !.watchdogTimer = TRUE, !.log.setInterval = @ + 1]

\* startWatchdog: clears the running interval, then sets a new one.
startWatchdog(w) ==
    [stopWatchdog(w) EXCEPT !.watchdogTimer = TRUE, !.log.setInterval = @ + 1]

forceStopRecognition(w) ==
    IF w.recognition # NoEngine
    THEN [w EXCEPT !.engState[w.recognition] = EngineStop(@),
                   !.log.nStop = @ + 1,
                   !.log.stopOn = @ \cup {w.recognition}]
    ELSE w

\* Fault: the active flag is cleared and the watchdog interval is left running.
resetInternalState_keepsWatchdog(w) == [w EXCEPT !.isRecognizing = FALSE]

resetInternalState(w) == stopWatchdog([w EXCEPT !.isRecognizing = FALSE])

\* resetStateManagerState writes only stateManager's recognition flags, which
\* mirror isRecognizing and which no method of the manager reads.
resetStateManagerState(w, clearTexts) == w

performFullReset(w, clearTexts) ==
    Publish(resetStateManagerState(forceStopRecognition(resetInternalState(w)), clearTexts),
            "clearInterimText")

\* Fault: start() does not return early when the manager is active.
start_restartsWhenActive(w) ==
    LET w0 == IF w.recognition = NoEngine THEN initializeRecognition(w) ELSE w
        w1 == [w0 EXCEPT !.log.ret = "true"]
    IN setTimeout(resetInternalState(forceStopRecognition(w1)), "settle", NoText)

\* start(): what runs before the settling timer is set.
start(w) ==
    LET w0 == IF w.recognition = NoEngine THEN initializeRecognition(w) ELSE w
        w1 == [w0 EXCEPT !.log.ret = "true"]
    IN IF w1.isRecognizing THEN w1
       ELSE setTimeout(resetInternalState(forceStopRecognition(w1)), "settle", NoText)

\* Fault: a start command that throws is tried again after the settling delay.
startSettled_retriesOnThrow(w) ==
    LET e == w.recognition IN
    IF e = NoEngine THEN [resetInternalState(w) EXCEPT !.log.error = "ABORTED"]
    ELSE IF w.engState[e] # "idle"
    THEN setTimeout([resetInternalState(w) EXCEPT !.log.startOn = e, !.log.startThrew = TRUE,
                                                  !.log.error = "ABORTED"],
                    "settle", NoText)
    ELSE [w EXCEPT !.engState[e] = "starting",
                   !.engStopReq[e] = FALSE,
                   !.log.startOn = e]

\* The settling callback of start(): recognition.lang = ..., recognition.start().
\* Setting lang on a null handle and start() on an engine that has been started
\* and has not ended both throw; the catch resets the internal state and sets
\* the error ABORTED.
startSettled(w) ==
    LET e == w.recognition IN
    IF e = NoEngine THEN [resetInternalState(w) EXCEPT !.log.error = "ABORTED"]
    ELSE IF w.engState[e] # "idle"
    THEN [resetInternalState(w) EXCEPT !.log.startOn = e, !.log.startThrew = TRUE,
                                       !.log.error = "ABORTED"]
    ELSE [w EXCEPT !.engState[e] = "starting",
                   !.engStopReq[e] = FALSE,
                   !.log.startOn = e]

\* stop(): a started handle that this call stops is marked as stopped on request.
stop(w) ==
    IF w.recognition = NoEngine THEN [w EXCEPT !.log.stopCalls = @ + 1, !.log.ret = "true"]
    ELSE LET e == w.recognition
             w1 == performFullReset([w EXCEPT !.manualStop = TRUE, !.log.stopCalls = @ + 1,
                                              !.log.ret = "true"],
                                    TRUE)
         IN [w1 EXCEPT !.engStopReq[e] =
                           @ \/ ("stopReq" \in w.observe /\ w.engState[e] \in {"starting", "running"})]

\* Fault: the engine is stopped and the internal state is left as it was.
safeRestart_keepsActive(w) ==
    LET w1 == Publish(forceStopRecognition(w), "clearInterimText")
        w2 == [w1 EXCEPT !.errorCount = 0, !.log.safeRestarts = @ + 1]
    IN setTimeout(w2, "recreate", NoText)

\* safeRestart(): what runs before the re-create timer is set.
safeRestart(w) ==
    LET w1 == performFullReset(w, TRUE)
        w2 == [w1 EXCEPT !.errorCount = 0, !.log.safeRestarts = @ + 1]
    IN setTimeout(w2, "recreate", NoText)

\* The re-create callback of safeRestart().
safeRestartDelayed(w) == start(initializeRecognition(w))

\* Utils.generateId: an opaque token that differs from every id in use.  The only
\* id in use is the current one (stale holders are tracked by engCurrent and
\* overtaken), so two tokens are enough.
generateId(current) == IF current = 1 THEN 2 ELSE 1

onstart(w, e) ==
    startWatchdog([w EXCEPT !.isRecognizing = TRUE,
                            !.sessionId = generateId(w.sessionId),
                            !.timeSinceLastResult = 0,
                            !.timeSinceSessionStart = 0,
                            !.errorCount = 0,
                            !.engCurrent = [f \in Engines |-> "origin" \in w.observe /\ f = e],
                            !.timers = [i \in 1..Len(@) |->
                                           [@[i] EXCEPT !.overtaken = "overtaken" \in w.observe]]])

\* Fault: the manual-stop flag is left as it was.
onend_keepsManualStop(w) ==
    LET wasRecognizing == w.isRecognizing
        w1 == Publish(resetStateManagerState(resetInternalState(w), FALSE), "clearInterimText")
    IN IF wasRecognizing /\ ~w1.manualStop THEN setTimeout(w1, "restart", NoText) ELSE w1

onend(w) ==
    LET wasRecognizing == w.isRecognizing
        w1 == Publish(resetStateManagerState(resetInternalState(w), FALSE), "clearInterimText")
        w2 == IF wasRecognizing /\ ~w1.manualStop THEN setTimeout(w1, "restart", NoText) ELSE w1
    IN [w2 EXCEPT !.manualStop = FALSE]

\* Fault: the restart is scheduled before the error count is compared with the
\* threshold.
handleError_restartsFirst(w, error) ==
    LET w1 == performFullReset([w EXCEPT !.errorCount = @ + 1,
                                         !.log.error = mapErrorCode(error)], TRUE)
        w2 == IF shouldAutoRestart(error) THEN setTimeout(w1, "restart", NoText) ELSE w1
    IN IF w2.errorCount >= maxErrorCount THEN stop(w2) ELSE w2

\* Fault: below the threshold a restart is scheduled whatever the code.
handleError_restartsEveryCode(w, error) ==
    LET w1 == performFullReset([w EXCEPT !.errorCount = @ + 1,
                                         !.log.error = mapErrorCode(error)], TRUE) IN
    IF w1.errorCount >= maxErrorCount THEN stop(w1)
    ELSE setTimeout(w1, "restart", NoText)

handleError(w, error) ==
    LET w1 == performFullReset([w EXCEPT !.errorCount = @ + 1,
                                         !.log.error = mapErrorCode(error)], TRUE) IN
    IF w1.errorCount >= maxErrorCount THEN stop(w1)
    ELSE IF shouldAutoRestart(error) THEN setTimeout(w1, "restart", NoText)
    ELSE w1

\* pinyinConverter.convertToRuby: the annotated form of a text, or the failure
\* that processFinalResult catches (the text stays unannotated).
Ruby(text, ok) == [annotated |-> ok, text |-> text]

\* stateManager.addTextHistory and the textRecognized event.  `stale` records
\* whether the result came from a superseded session (observation only).
emitFinal(w, text, rubyText, stale) ==
    Publish([w EXCEPT !.history = Append(@, [originalText |-> text, rubyText |-> rubyText,
                                            stale |-> stale]),
                      !.log.appended = @ + 1],
            "textRecognized")

\* Fault: the dedup window is not consulted.
processFinalResult_withoutDedup(w, text, stale) ==
    LET trimmedText == trimChinese(text) IN
    IF trimmedText = NoText THEN w
    ELSE LET w1 == setTimeout([w EXCEPT !.processedTexts = @ \cup {trimmedText}],
                              "dedup", trimmedText)
             cleaned == cleanPinyinFromText(trimmedText)
         IN IF w1.pinyinConverter
            THEN [w1 EXCEPT !.conversions = Append(@, [text |-> cleaned, stale |-> stale])]
            ELSE emitFinal(w1, cleaned, Ruby(cleaned, FALSE), stale)

\* processFinalResult up to the await (or to its end when no converter is set).
processFinalResult(w, text, stale) ==
    LET trimmedText == trimChinese(text) IN
    IF trimmedText = NoText THEN w
    ELSE IF trimmedText \in w.processedTexts THEN w
    ELSE LET w1 == setTimeout([w EXCEPT !.processedTexts = @ \cup {trimmedText}],
                              "dedup", trimmedText)
             cleaned == cleanPinyinFromText(trimmedText)
         IN IF w1.pinyinConverter
            THEN [w1 EXCEPT !.conversions = Append(@, [text |-> cleaned, stale |-> stale])]
            ELSE emitFinal(w1, cleaned, Ruby(cleaned, FALSE), stale)

\* Fault: a failed conversion drops the result.
processFinalResultResumed_dropsOnFailure(w, c, ok) ==
    IF ok THEN emitFinal(w, c.text, Ruby(c.text, ok), c.stale) ELSE w

\* processFinalResult after the await: rubyText is the annotated text when
\* convertToRuby resolved, and still the cleaned text when it threw.
processFinalResultResumed(w, c, ok) == emitFinal(w, c.text, Ruby(c.text, ok), c.stale)

\* A result is superseded when the engine that delivers it is no longer the
\* handle the manager holds, or its session id has been replaced by a later on-start.
Superseded(w, e) == "origin" \in w.observe /\ (e # w.recognition \/ ~w.engCurrent[e])

\* handleResult: interim and final are the concatenated transcripts of the event.
handleResult(w, e, interim, final) ==
    LET currentSessionId == w.sessionId
        w1 == [w EXCEPT !.timeSinceLastResult = 0]
        w2 == IF interim # NoText THEN Publish(w1, "interimTextRecognized") ELSE w1
    IN IF currentSessionId # w1.sessionId THEN w1
       ELSE IF final # NoText THEN processFinalResult(w2, final, Superseded(w, e))
       ELSE w2

\* One tick of the watchdog interval.
watchdogTick(w) ==
    IF ~w.isRecognizing THEN w
    ELSE LET isResultTimeout == w.timeSinceLastResult > deadTime
             isSessionTimeout == w.timeSinceSessionStart > maxSessionTime
         IN IF isResultTimeout \/ isSessionTimeout THEN safeRestart(w) ELSE w

\* Fault: the session is stopped and no start is scheduled.
changeLanguage_withoutRestart(w) ==
    LET wasRecognizing == w.isRecognizing
        w1 == IF wasRecognizing THEN stop(w) ELSE w
    IN [w1 EXCEPT !.log.ret = "true"]

changeLanguage(w) ==
    LET wasRecognizing == w.isRecognizing
        w1 == IF wasRecognizing THEN stop(w) ELSE w
        w2 == IF wasRecognizing THEN setTimeout(w1, "lang", NoText) ELSE w1
    IN [w2 EXCEPT !.log.ret = "true"]

\* Fault: the session is stopped, the callbacks stay attached and the handle is kept.
destroy_keepsHandle(w) == stop(w)

\* destroy(): stop(), then the nine callbacks are detached and the handle is
\* released; a detached engine can no longer reach the manager.
destroy(w) ==
    LET w1 == stop(w) IN
    IF w1.recognition = NoEngine THEN w1
    ELSE [w1 EXCEPT !.engState[w1.recognition] = "none", !.recognition = NoEngine]

\* ---- state machine --------------------------------------------------------
\* Engine objects that are idle and no longer referenced are unreachable.
Collect(w, e) ==
    e # w.recognition /\ w.engState[e] \in {"idle", "none"}

WithinBounds(w) ==
    /\ Len(w.timers) <= MaxTimers
    /\ Len(w.history) + Len(w.conversions) <= MaxHistory
    /\ w.errorCount <= MaxErrors

\* The latest handler is recorded when the specification observes its kind.
Observed(op) == "ops" \in observe \/ op \in observe

Unobserved == [op |-> "unobserved", eng |-> NoEngine, arg |-> "", log |-> NoLog]

Commit(w, op, eng, arg) ==
    /\ WithinBounds(w)
    /\ recognition' = w.recognition
    /\ isRecognizing' = w.isRecognizing
    /\ sessionId' = w.sessionId
    /\ watchdogTimer' = w.watchdogTimer
    /\ timeSinceLastResult' = w.timeSinceLastResult
    /\ timeSinceSessionStart' = w.timeSinceSessionStart
    /\ errorCount' = w.errorCount
    /\ manualStop' = w.manualStop
    /\ processedTexts' = w.processedTexts
    /\ pinyinConverter' = w.pinyinConverter
    /\ timers' = w.timers
    /\ conversions' = w.conversions
    /\ history' = w.history
    /\ engState' = [e \in Engines |-> IF Collect(w, e) THEN "none" ELSE w.engState[e]]
    /\ engCurrent' = [e \in Engines |-> IF Collect(w, e) THEN FALSE ELSE w.engCurrent[e]]
    /\ engStopReq' = [e \in Engines |-> IF Collect(w, e) THEN FALSE ELSE w.engStopReq[e]]
    /\ lastOp' = IF Observed(op) THEN [op |-> op, eng |-> eng, arg |-> arg, log |-> w.log]
                  ELSE Unobserved
    /\ observe' = observe

Ghosts(h, p, c) ==
    /\ halted' = IF "halted" \in observe THEN h ELSE halted
    /\ wdRestartPending' = IF "watchdog" \in observe THEN p ELSE wdRestartPending
    /\ consecutiveErrors' = IF "errors" \in observe THEN c ELSE consecutiveErrors

KeepGhosts == UNCHANGED <<halted, wdRestartPending, consecutiveErrors>>

\* ---- calls of the application ----------------------------------------------
Start ==
    /\ (recognition = NoEngine => FreeEngines(World) # {})
    /\ Commit(start(World), "start", NoEngine, "")
    /\ Ghosts("no", wdRestartPending, consecutiveErrors)

Stop ==
    /\ Commit(stop(World), "stop", NoEngine, "")
    /\ Ghosts("stop", wdRestartPending, consecutiveErrors)

ChangeLanguage ==
    /\ Commit(changeLanguage(World), "changeLanguage", NoEngine, "")
    /\ Ghosts("no", wdRestartPending, consecutiveErrors)

Destroy ==
    /\ Commit(destroy(World), "destroy", NoEngine, "")
    /\ Ghosts(IF "destroyed" \in observe THEN "destroyed" ELSE halted,
              wdRestartPending, consecutiveErrors)

SetPinyinConverter(c) ==
    /\ pinyinConverter # c
    /\ Commit([World EXCEPT !.pinyinConverter = c], "setPinyinConverter", NoEngine, "")
    /\ KeepGhosts

\* ---- timer callbacks --------------------------------------------------------
Fired(i) == [World EXCEPT !.timers = RemoveAt(@, i)]

\* setTimeout(() => this.safeRestart(), restartDelay) of onend and handleError
FireRestart(i) ==
    /\ CanFire(i) /\ timers[i].kind = "restart"
    /\ Commit(safeRestart(Fired(i)), "restartTimer", NoEngine, timers[i].overtaken)
    /\ KeepGhosts

\* the re-create callback of safeRestart
FireRecreate(i) ==
    /\ CanFire(i) /\ timers[i].kind = "recreate"
    /\ FreeEngines(World) # {}
    /\ Commit(safeRestartDelayed(Fired(i)), "recreateTimer", NoEngine, timers[i].overtaken)
    /\ KeepGhosts

\* the settling callback of start
FireSettle(i) ==
    /\ CanFire(i) /\ timers[i].kind = "settle"
    /\ Commit(startSettled(Fired(i)), "settleTimer", NoEngine, timers[i].overtaken)
    /\ KeepGhosts

\* setTimeout(() => this.start(), restartDelay) of changeLanguage
FireLang(i) ==
    /\ CanFire(i) /\ timers[i].kind = "lang"
    /\ (recognition = NoEngine => FreeEngines(World) # {})
    /\ Commit(start(Fired(i)), "langTimer", NoEngine, timers[i].overtaken)
    /\ KeepGhosts

\* the expiry callback of a processedTexts entry
FireDedup(i) ==
    /\ CanFire(i) /\ timers[i].kind = "dedup"
    /\ Commit([Fired(i) EXCEPT !.processedTexts = @ \ {timers[i].text}],
              "dedupTimer", NoEngine, timers[i].text)
    /\ KeepGhosts

\* The watchdog interval ticks while it is armed.
WatchdogTick ==
    /\ watchdogTimer
    /\ LET w == watchdogTick(World) IN
       /\ Commit(w, "watchdog", NoEngine, "")
       /\ Ghosts(halted, wdRestartPending \/ w.log.safeRestarts > 0, consecutiveErrors)

\* The instants time is sampled at: on each threshold and just past it.
TimeSteps == {1, deadTime, maxSessionTime}
ResultInstants == {0, deadTime, deadTime + 1}
SessionInstants == {0, maxSessionTime, maxSessionTime + 1}

\* Time passes.  Both ages are read only by a watchdog tick and every arming of
\* the watchdog stamps them, so time is tracked only while the watchdog is armed.
Advance(d) ==
    /\ watchdogTimer
    /\ timeSinceLastResult' = Min(timeSinceLastResult + d, deadTime + 1)
    /\ timeSinceSessionStart' = Min(timeSinceSessionStart + d, maxSessionTime + 1)
    /\ timeSinceLastResult' \in ResultInstants
    /\ timeSinceSessionStart' \in SessionInstants
    /\ lastOp' = IF Observed("advance")
                  THEN [op |-> "advance", eng |-> NoEngine, arg |-> "", log |-> NoLog]
                  ELSE Unobserved
    /\ UNCHANGED <<recognition, isRecognizing, sessionId, watchdogTimer, errorCount,
                   manualStop, processedTexts, pinyinConverter, timers, conversions,
                   history, engState, engCurrent, engStopReq, halted, wdRestartPending,
                   consecutiveErrors, observe>>

\* The await of processFinalResult resumes: convertToRuby resolved (ok) or threw.
ConversionDone(i, ok) ==
    /\ i \in 1..Len(conversions)
    /\ LET c == conversions[i]
           w == [World EXCEPT !.conversions = RemoveAt(@, i)]
       IN Commit(processFinalResultResumed(w, c, ok), "conversionDone", NoEngine,
                 [text |-> c.text, ok |-> ok])
    /\ KeepGhosts

\* ---- events of the engines --------------------------------------------------
OnStart(e) ==
    /\ engState[e] = "starting"
    /\ Commit(onstart([World EXCEPT !.engState[e] = "running"], e), "onstart", e, "")
    /\ Ghosts(IF "untilOnStart" \in observe THEN "no" ELSE halted, FALSE, 0)

\* The engine terminates: on request, after an error, or on its own.
OnEnd(e) ==
    /\ engState[e] \in {"running", "stopping", "ending"}
    /\ Commit(onend([World EXCEPT !.engState[e] = "idle"]), "onend", e, "")
    /\ KeepGhosts

OnResult(e, interim, final) ==
    /\ engState[e] \in {"running", "stopping"}
    /\ Commit(handleResult(World, e, interim, final), "onresult", e,
              [interim |-> interim, final |-> final, stale |-> Superseded(World, e)])
    /\ KeepGhosts

\* An error ends the run of the engine: on-end follows.
OnError(e, error) ==
    /\ engState[e] \in {"starting", "running"}
    /\ LET w == handleError([World EXCEPT !.engState[e] = "ending"], error) IN
       /\ Commit(w, "onerror", e, error)
       /\ consecutiveErrors < MaxErrors
       /\ Ghosts(IF w.errorCount >= maxErrorCount THEN "threshold" ELSE halted,
                 wdRestartPending, consecutiveErrors + 1)

Interims == {NoText, <<"Ni">>}
Finals == {NoText, <<"Ni", "Hao">>}
\* The state after the constructor; `obs` names the observations recorded.
InitObserving(obs) ==
    /\ observe = obs
    /\ recognition = 1
    /\ isRecognizing = FALSE
    /\ sessionId = NoSession
    /\ watchdogTimer = FALSE
    /\ timeSinceLastResult = deadTime + 1
    /\ timeSinceSessionStart = maxSessionTime + 1
    /\ errorCount = 0
    /\ manualStop = FALSE
    /\ processedTexts = {}
    /\ pinyinConverter = FALSE
    /\ timers = << >>
    /\ conversions = << >>
    /\ history = << >>
    /\ engState = [e \in Engines |-> IF e = 1 THEN "idle" ELSE "none"]
    /\ engCurrent = [e \in Engines |-> FALSE]
    /\ engStopReq = [e \in Engines |-> FALSE]
    /\ halted = "no"
    /\ wdRestartPending = FALSE
    /\ consecutiveErrors = 0
    /\ lastOp = Unobserved

\* The application's calls, the timers and the engines' events that drive the
\* session lifecycle; results carry interim text only.
Lifecycle ==
    \/ Start
    \/ Stop
    \/ ChangeLanguage
    \/ Destroy
    \/ \E i \in 1..MaxTimers : FireRestart(i)
    \/ \E i \in 1..MaxTimers : FireRecreate(i)
    \/ \E i \in 1..MaxTimers : FireSettle(i)
    \/ \E i \in 1..MaxTimers : FireLang(i)
    \/ WatchdogTick
    \/ \E d \in TimeSteps : Advance(d)
    \/ \E e \in Engines : OnStart(e)
    \/ \E e \in Engines : OnEnd(e)
    \/ \E e \in Engines, interim \in Interims : OnResult(e, interim, NoText)
    \/ \E e \in Engines, error \in ErrorCodes : OnError(e, error)

Next == Lifecycle

\* One session after another: the application starts and stops, the engines
\* start and end, the restart timers run.
SessionFlow ==
    \/ Start
    \/ Stop
    \/ \E i \in 1..MaxTimers : FireRestart(i)
    \/ \E i \in 1..MaxTimers : FireRecreate(i)
    \/ \E i \in 1..MaxTimers : FireSettle(i)
    \/ \E e \in Engines : OnStart(e)
    \/ \E e \in Engines : OnEnd(e)

\* Results with final text, their conversion and the expiry of the dedup entries.
TextFlow ==
    \/ \E c \in BOOLEAN : SetPinyinConverter(c)
    \/ \E i \in 1..MaxTimers : FireDedup(i)
    \/ \E i \in 1..MaxHistory, ok \in BOOLEAN : ConversionDone(i, ok)
    \/ \E e \in Engines, interim \in Interims, final \in Finals :
          OnResult(e, interim, final)

\* Results with final text while no converter is set, and the dedup expiries.
ResultFlow ==
    \/ \E i \in 1..MaxTimers : FireDedup(i)
    \/ \E e \in Engines, interim \in Interims, final \in Finals :
          OnResult(e, interim, final)

\* The application's first start() and what follows without another call: the
\* engines' events and the timers.
FirstStart ==
    /\ sessionId = NoSession /\ timers = << >> /\ consecutiveErrors = 0
    /\ errorCount = 0 /\ \A e \in Engines : ~Started(engState[e])
    /\ Start

RetryLoop ==
    \/ FirstStart
    \/ \E i \in 1..MaxTimers : FireRestart(i)
    \/ \E i \in 1..MaxTimers : FireRecreate(i)
    \/ \E i \in 1..MaxTimers : FireSettle(i)
    \/ \E e \in Engines : OnStart(e)
    \/ \E e \in Engines : OnEnd(e)
    \/ \E e \in Engines, error \in ErrorCodes : OnError(e, error)

\* Final transcripts of a dictation: plain, with boundary white space, with
\* pinyin mixed in, with a toneless u-diaeresis, Latin letters only (a word
\* such as "OK"), and white space only.
Transcripts == {<<"Ni", "Hao">>, <<" ", "Ni", "Hao">>, <<"Ni", "n", "i3", "Hao">>,
                <<"Ni", "u:">>, <<"n">>, <<" ">>}

\* One session in which the engine delivers final results.
Dictation ==
    \/ FirstStart
    \/ \E i \in 1..MaxTimers : FireSettle(i)
    \/ \E e \in Engines : OnStart(e)
    \/ \E c \in BOOLEAN : SetPinyinConverter(c)
    \/ \E i \in 1..MaxTimers : FireDedup(i)
    \/ \E i \in 1..MaxHistory, ok \in BOOLEAN : ConversionDone(i, ok)
    \/ \E e \in Engines, final \in Transcripts : OnResult(e, NoText, final)

\* An engine that was told to stop, or that failed, terminates.
EngineEnds(e) == engState[e] \in {"stopping", "ending"} /\ OnEnd(e)

\* One start(), then changes of the language; the engines may end on their own
\* and the watchdog runs.
LanguageFlow ==
    \/ FirstStart
    \/ ChangeLanguage
    \/ \E i \in 1..MaxTimers : FireLang(i)
    \/ \E i \in 1..MaxTimers : FireSettle(i)
    \/ \E i \in 1..MaxTimers : FireRestart(i)
    \/ \E i \in 1..MaxTimers : FireRecreate(i)
    \/ WatchdogTick
    \/ \E d \in TimeSteps : Advance(d)
    \/ \E e \in Engines : OnStart(e)
    \/ \E e \in Engines : OnEnd(e)

\* Timers that are due run, an engine that accepted a start command delivers
\* on-start, and an engine that is terminating delivers on-end.
LanguageFairness ==
    /\ WF_vars(\E i \in 1..MaxTimers : FireLang(i))
    /\ WF_vars(\E i \in 1..MaxTimers : FireSettle(i))
    /\ WF_vars(\E i \in 1..MaxTimers : FireRestart(i))
    /\ WF_vars(\E i \in 1..MaxTimers : FireRecreate(i))
    /\ \A e \in Engines : WF_vars(OnStart(e)) /\ WF_vars(EngineEnds(e))

\* One start(), then only what the manager does by itself: the restarts after
\* on-end, on-error and watchdog timeouts.
AutoRestarts ==
    \/ RetryLoop
    \/ WatchdogTick
    \/ \E d \in TimeSteps : Advance(d)

\* The lifecycle, with the latest handler observed.
Init == InitObserving({"ops"})

Spec == Init /\ [][Next]_vars

\* The lifecycle, observing pending watchdog restarts and the watchdog's ticks.
SpecWatchdog == InitObserving({"watchdog"}) /\ [][Next]_vars

\* The lifecycle, observing stop()/threshold halts and the engine start commands.
SpecHalted == InitObserving({"halted", "settleTimer"}) /\ [][Next]_vars

\* The lifecycle, observing which engine runs were stopped on request, and on-end.
SpecStopRequests == InitObserving({"stopReq", "onend"}) /\ [][Next]_vars

\* The lifecycle, observing timers overtaken by an on-start, and the restart timers.
SpecOvertaken ==
    InitObserving({"overtaken", "restartTimer", "recreateTimer"}) /\ [][Next]_vars

\* Automatic retries after one start(), observing consecutive errors, and on-error.
SpecRetry == InitObserving({"errors", "onerror"}) /\ [][RetryLoop]_vars

\* Sessions with results, observing the session each result comes from.
SpecFence == InitObserving({"origin", "onresult"}) /\ [][SessionFlow \/ ResultFlow]_vars

\* One dictation session, observing results, conversions and dedup expiries.
SpecText ==
    InitObserving({"onresult", "conversionDone", "dedupTimer"}) /\ [][Dictation]_vars

\* Language changes in a session, observing changeLanguage and the start commands.
SpecLanguage ==
    /\ InitObserving({"changeLanguage", "settleTimer"})
    /\ [][LanguageFlow]_vars
    /\ LanguageFairness

\* Automatic restarts after one start(), observing the timers of the restart path.
SpecRestarts ==
    InitObserving({"restartTimer", "recreateTimer", "settleTimer"}) /\ [][AutoRestarts]_vars

\* Sessions with results, observing the time from a stop() to the next on-start
\* and what results and conversions do.
SpecStopped ==
    /\ InitObserving({"halted", "untilOnStart", "onresult", "conversionDone"})
    /\ [][SessionFlow \/ TextFlow]_vars

\* The lifecycle, observing destroy() and what the timers do afterwards.
SpecDestroyed ==
    /\ InitObserving({"halted", "destroyed", "restartTimer", "recreateTimer", "settleTimer"})
    /\ [][Next]_vars

\* ---- properties ----------------------------------------------------------------
\* C5: threshold check precedes restart scheduling.  An on-error with a
\* restartable code that brings errorCount from maxErrorCount - 1 to maxErrorCount
\* makes handleError call stop() and schedule no timer.
C5_ThresholdPrecedesRestart ==
    (lastOp.op = "onerror" /\ errorCount = maxErrorCount /\ shouldAutoRestart(lastOp.arg))
        => (lastOp.log.stopCalls = 1 /\ lastOp.log.sched = << >>)

C5_Witness ==
    /\ lastOp.op = "onerror" /\ errorCount = maxErrorCount /\ shouldAutoRestart(lastOp.arg)
    /\ lastOp.log.stopCalls = 1

\* C10: the watchdog interval is armed exactly when the manager is active, in
\* every state, and a watchdog tick that triggers safeRestart found it active.
C10_WatchdogArmedIffActive ==
    [][/\ watchdogTimer <=> isRecognizing
       /\ watchdogTimer' <=> isRecognizing'
       /\ (lastOp'.op = "watchdog" /\ lastOp'.log.safeRestarts > 0) => isRecognizing]_vars

C10_Witness == lastOp.op = "onstart" /\ watchdogTimer /\ isRecognizing

\* C1: a result that comes from a superseded session (its engine is no longer the
\* handle held, or a later on-start replaced its session id) appends nothing to
\* the history and publishes neither interim nor final text.
C1_SessionFencing ==
    /\ \A i \in 1..Len(history) : ~history[i].stale
    /\ (lastOp.op = "onresult" /\ lastOp.arg.stale)
          => /\ lastOp.log.appended = 0
             /\ lastOp.log.pub \cap {"interimTextRecognized", "textRecognized"} = {}

\* C2: after stop() has returned and until the application calls start() or
\* changeLanguage(), no engine start command is issued and the manager is not
\* active.
C2_NoStartAfterStop ==
    halted = "stop" =>
        /\ ~isRecognizing
        /\ ~(lastOp.op = "settleTimer" /\ lastOp.log.startOn # NoEngine)

\* C3 (safety part): an on-end that finds the manager active, from an engine run
\* that no stop() call stopped, schedules a restart.
C3_SelfHealing ==
    [][(lastOp'.op = "onend" /\ isRecognizing /\ ~engStopReq[lastOp'.eng])
          => lastOp'.log.sched = <<"restart">>]_vars

\* C4: an engine that has been started and has neither been stopped nor ended is
\* the handle the manager holds (so there is at most one), and the manager is
\* active only while the handle it holds has delivered on-start and runs.
Capturing(e) == engState[e] \in {"starting", "running"}

C4_RunningEngineIsHeld ==
    /\ \A e \in Engines : Capturing(e) => e = recognition
    /\ isRecognizing => (recognition # NoEngine /\ engState[recognition] = "running")

\* C6: once handleError has reached maxErrorCount and called stop(), and until
\* the application calls start() or changeLanguage(), no engine start command is
\* issued and the manager is not active.
C6_ThresholdIsTerminal ==
    halted = "threshold" =>
        /\ ~isRecognizing
        /\ ~(lastOp.op = "settleTimer" /\ lastOp.log.startOn # NoEngine)

\* C7: errorCount counts the consecutive errors since the latest on-start, so
\* the on-error that is the maxErrorCount-th in a row calls stop() and schedules
\* no restart.
C7_BoundedRetry ==
    (lastOp.op = "onerror" /\ consecutiveErrors = maxErrorCount)
        => (errorCount = maxErrorCount /\ lastOp.log.stopCalls = 1 /\ lastOp.log.sched = << >>)

\* C8: a restart timer (or the re-create step of safeRestart) that fires after an
\* on-start has begun a newer session gives no engine a stop command, keeps the
\* handle, the active flag and the session id.
C8_DeferredRestartFenced ==
    [][(lastOp'.op \in {"restartTimer", "recreateTimer"} /\ lastOp'.arg = TRUE)
          => /\ lastOp'.log.nStop = 0
             /\ recognition' = recognition
             /\ isRecognizing' = isRecognizing
             /\ sessionId' = sessionId]_vars

\* C9: a watchdog tick triggers safeRestart exactly when it finds the manager
\* active and one of the two ages past its limit, and then once; while that
\* restart is pending (no on-start yet) the watchdog is disarmed and the manager
\* inactive, and no tick triggers another restart.
C9_WatchdogFiresOnce ==
    [][/\ lastOp'.op = "watchdog" =>
            lastOp'.log.safeRestarts =
                IF isRecognizing /\ (\/ timeSinceLastResult > deadTime
                                     \/ timeSinceSessionStart > maxSessionTime)
                THEN 1 ELSE 0
       /\ wdRestartPending' => (~watchdogTimer' /\ ~isRecognizing')
       /\ (wdRestartPending /\ lastOp'.op = "watchdog") => lastOp'.log.safeRestarts = 0]_vars

C9_Witness ==
    /\ wdRestartPending
    /\ lastOp.op = "watchdog" /\ lastOp.log.safeRestarts = 1
    /\ timeSinceLastResult = deadTime + 1

\* C11: a final transcript whose trimmed text is in the dedup window adds no
\* history entry, starts no conversion and publishes no final text; one whose
\* trimmed text is not in the window (never finalized, or expired) yields one
\* history entry and one event, at once or when its conversion ends; the expiry
\* callback removes exactly its text from the window.
C11_DedupWithinWindow ==
    [][/\ (lastOp'.op = "onresult" /\ trimChinese(lastOp'.arg.final) # NoText) =>
            IF trimChinese(lastOp'.arg.final) \in processedTexts
            THEN /\ history' = history /\ conversions' = conversions
                 /\ "textRecognized" \notin lastOp'.log.pub
                 /\ processedTexts' = processedTexts
            ELSE /\ Len(history') + Len(conversions') = Len(history) + Len(conversions) + 1
                 /\ (Len(history') > Len(history)) <=> ("textRecognized" \in lastOp'.log.pub)
                 /\ processedTexts' = processedTexts \cup {trimChinese(lastOp'.arg.final)}
       /\ lastOp'.op = "conversionDone" =>
            /\ Len(history') = Len(history) + 1
            /\ "textRecognized" \in lastOp'.log.pub
       /\ lastOp'.op = "dedupTimer" =>
            /\ processedTexts' = processedTexts \ {lastOp'.arg}
            /\ history' = history]_vars

\* The same transcript was finalized again after its entry expired (second
\* entry), and is now finalized once more inside the window (no third entry).
C11_Witness ==
    /\ lastOp.op = "onresult" /\ lastOp.arg.final = <<"Ni", "u:">>
    /\ <<"Ni", "u:">> \in processedTexts
    /\ lastOp.log.appended = 0
    /\ Len(history) = 2
    /\ \A i \in 1..2 : history[i].originalText = <<"Ni", "u:">>

\* C12: a final result whose emitted (cleaned) text is a string of the dedup
\* window when it arrives is not appended to the history, starts no conversion
\* and is not published.
C12_WindowTextNotReEmitted ==
    [][(/\ lastOp'.op = "onresult"
        /\ cleanPinyinFromText(trimChinese(lastOp'.arg.final)) \in processedTexts)
          => /\ history' = history /\ conversions' = conversions
             /\ "textRecognized" \notin lastOp'.log.pub]_vars

\* C13: changeLanguage called while the manager is active stops the session and
\* schedules a start after restartDelay; from there, with no further call of the
\* application, the manager becomes active again, unless the engine refuses the
\* start command (recognition.start() throws in the settling callback).
C13_ChangeLanguagePreservesActive ==
    /\ [][(lastOp'.op = "changeLanguage" /\ isRecognizing)
             => (lastOp'.log.sched = <<"lang">> /\ ~isRecognizing')]_vars
    /\ (lastOp.op = "changeLanguage" /\ lastOp.log.sched = <<"lang">>)
          ~> (isRecognizing \/ (lastOp.op = "settleTimer" /\ lastOp.log.startThrew))

\* changeLanguage has just stopped an active session and scheduled the start.
C13_Witness ==
    /\ lastOp.op = "changeLanguage" /\ lastOp.log.sched = <<"lang">>
    /\ lastOp.log.stopCalls = 1 /\ lastOp.log.nStop = 1
    /\ ~isRecognizing /\ manualStop
    /\ timers = <<[kind |-> "lang", text |-> NoText, overtaken |-> FALSE]>>

\* C14: stop() called while the manager is inactive returns true, gives the
\* handle one stop command and no engine any other command, creates no engine,
\* schedules no timer and leaves the manager inactive; the handle it force-stops
\* is not running, so the command stops nothing.
C14_StopWhileInactive ==
    [][(lastOp'.op = "stop" /\ ~isRecognizing) =>
          /\ lastOp'.log.ret = "true"
          /\ lastOp'.log.nStop = (IF recognition = NoEngine THEN 0 ELSE 1)
          /\ lastOp'.log.stopOn \subseteq {recognition}
          /\ lastOp'.log.startOn = NoEngine /\ lastOp'.log.created = NoEngine
          /\ lastOp'.log.sched = << >> /\ timers' = timers
          /\ ~isRecognizing' /\ ~watchdogTimer'
          /\ recognition # NoEngine => engState[recognition] # "running"]_vars

\* C15: start() called while the manager is active returns true, gives no engine
\* a stop or start command, schedules no timer and leaves the active flag, the
\* session id, the error count, both time stamps and the watchdog as they were.
C15_StartIdempotentWhileActive ==
    [][(lastOp'.op = "start" /\ isRecognizing) =>
          /\ lastOp'.log.ret = "true"
          /\ lastOp'.log.nStop = 0 /\ lastOp'.log.startOn = NoEngine
          /\ lastOp'.log.sched = << >> /\ timers' = timers
          /\ lastOp'.log.setInterval = 0 /\ lastOp'.log.clearInterval = 0
          /\ UNCHANGED <<isRecognizing, sessionId, errorCount, timeSinceLastResult,
                         timeSinceSessionStart, watchdogTimer>>]_vars

\* start() was called on an active manager whose session has aged.
C15_Witness ==
    /\ lastOp.op = "start" /\ lastOp.log.ret = "true" /\ lastOp.log.sched = << >>
    /\ isRecognizing /\ watchdogTimer /\ timeSinceLastResult = deadTime

\* C16: destroy() called on a manager that holds a handle leaves it inactive with
\* the watchdog disarmed, the callbacks of the handle detached (the engine can
\* deliver no event) and the handle released; destroy() called on the released
\* handle gives no engine a command, returns normally and changes nothing.
C16_DestroyRepeatable ==
    [][lastOp'.op = "destroy" =>
          /\ recognition' = NoEngine
          /\ lastOp'.log.startOn = NoEngine /\ lastOp'.log.sched = << >>
          /\ recognition # NoEngine =>
                /\ ~isRecognizing' /\ ~watchdogTimer'
                /\ engState'[recognition] = "none"
                /\ lastOp'.log.stopOn = {recognition}
          /\ recognition = NoEngine =>
                /\ lastOp'.log.nStop = 0 /\ lastOp'.log.pub = {}
                /\ lastOp'.log.ret = "true"
                /\ UNCHANGED <<recognition, isRecognizing, sessionId, watchdogTimer,
                               timeSinceLastResult, timeSinceSessionStart, errorCount,
                               manualStop, processedTexts, pinyinConverter, timers,
                               conversions, history, engState>>]_vars

\* destroy() has been called on a manager it had already destroyed while active.
C16_Witness ==
    /\ lastOp.op = "destroy" /\ lastOp.log.nStop = 0 /\ lastOp.log.stopCalls = 1
    /\ recognition = NoEngine /\ sessionId # NoSession /\ manualStop

\* C17: restart eligibility depends on the raw error code alone.  shouldAutoRestart
\* holds exactly for no-speech, aborted and audio-capture; the codes mapErrorCode
\* does not list are classified UNKNOWN and are not restartable; and whatever
\* state an on-error finds, below the threshold handleError schedules a restart
\* exactly for the three restartable codes.
RestartableCodes == {"no-speech", "aborted", "audio-capture"}
ListedCodes == RestartableCodes \cup {"not-allowed", "network", "timeout"}
EngineCodes == ErrorCodes \cup {"service-not-allowed", "language-not-supported"}

C17_RestartEligibility ==
    /\ \A error \in EngineCodes :
          /\ shouldAutoRestart(error) <=> error \in RestartableCodes
          /\ mapErrorCode(error) = "UNKNOWN" <=> error \notin ListedCodes
          /\ mapErrorCode(error) = "UNKNOWN" => ~shouldAutoRestart(error)
    /\ (lastOp.op = "onerror" /\ errorCount < maxErrorCount) =>
          lastOp.log.sched = (IF lastOp.arg \in RestartableCodes THEN <<"restart">> ELSE << >>)

\* An unlisted code and a restartable code have each been handled below the threshold.
C17_Witness ==
    /\ lastOp.op = "onerror" /\ lastOp.arg = "bad-grammar"
    /\ errorCount = 2 /\ lastOp.log.sched = << >>
    /\ Len(timers) = 1 /\ timers[1].kind = "restart"

\* C18: a conversion that fails still yields exactly one history entry and one
\* final-text event, whose annotated form is the cleaned text without
\* annotation; without a converter a final result that is not a duplicate
\* yields the same at once, and with one it starts exactly one conversion.
C18_ConversionFailureNonFatal ==
    [][/\ (lastOp'.op = "conversionDone" /\ ~lastOp'.arg.ok) =>
            /\ Len(conversions') = Len(conversions) - 1
            /\ Len(history') = Len(history) + 1
            /\ lastOp'.log.appended = 1 /\ "textRecognized" \in lastOp'.log.pub
            /\ history'[Len(history')].originalText = lastOp'.arg.text
            /\ history'[Len(history')].rubyText = [annotated |-> FALSE, text |-> lastOp'.arg.text]
       /\ (/\ lastOp'.op = "onresult"
           /\ trimChinese(lastOp'.arg.final) # NoText
           /\ trimChinese(lastOp'.arg.final) \notin processedTexts) =>
            IF pinyinConverter
            THEN /\ Len(conversions') = Len(conversions) + 1
                 /\ history' = history /\ lastOp'.log.pub = {}
            ELSE /\ conversions' = conversions
                 /\ Len(history') = Len(history) + 1
                 /\ lastOp'.log.appended = 1 /\ "textRecognized" \in lastOp'.log.pub
                 /\ ~history'[Len(history')].rubyText.annotated
                 /\ history'[Len(history')].rubyText.text
                       = history'[Len(history')].originalText]_vars

\* A conversion has failed and its result is in the history, unannotated.
C18_Witness ==
    /\ lastOp.op = "conversionDone" /\ ~lastOp.arg.ok
    /\ Len(history) = 1 /\ ~history[1].rubyText.annotated
    /\ history[1].originalText = <<"Ni", "Hao">>

\* C19: for a final transcript made of Chinese characters and Latin letters, the
\* text that goes to the history (at once, or through the conversion) is the
\* transcript with exactly its Latin letters removed, marked or not, and every
\* other character kept in order.
C19_PinyinCleaning ==
    (/\ lastOp.op = "onresult"
     /\ \A i \in 1..Len(lastOp.arg.final) : lastOp.arg.final[i] \in Han \cup Latin)
       => LET WithoutLatin == SelectSeq(lastOp.arg.final, LAMBDA c : c \notin Latin) IN
          /\ lastOp.log.appended = 1 =>
                history[Len(history)].originalText = WithoutLatin
          /\ (lastOp.log.appended = 0 /\ lastOp.log.sched = <<"dedup">>) =>
                conversions[Len(conversions)].text = WithoutLatin

C21_ErrorBelowThreshold ==
    [][(lastOp'.op = "onerror" /\ errorCount' < maxErrorCount) =>
          /\ errorCount' = errorCount + 1
          /\ ~isRecognizing' /\ ~watchdogTimer'
          /\ manualStop' = manualStop
          /\ lastOp'.log.stopCalls = 0 /\ lastOp'.log.safeRestarts = 0
          /\ lastOp'.log.startOn = NoEngine
          /\ IF lastOp'.arg \in {"no-speech", "aborted", "audio-capture"}
             THEN lastOp'.log.sched = <<"restart">> /\ Len(timers') = Len(timers) + 1
             ELSE lastOp'.log.sched = << >> /\ timers' = timers]_vars

\* A restartable error has hit an active manager.
C21_Witness ==
    /\ lastOp.op = "onerror" /\ lastOp.arg = "no-speech" /\ errorCount = 1
    /\ lastOp.log.sched = <<"restart">> /\ lastOp.log.clearInterval = 1
    /\ ~isRecognizing /\ ~watchdogTimer

\* C22: after every on-end manualStop is false and the manager is inactive with
\* the watchdog disarmed, whether a restart was scheduled or not; an on-end that
\* finds the manager inactive schedules no timer.
C22_OnEndEffects ==
    [][lastOp'.op = "onend" =>
          /\ ~manualStop' /\ ~isRecognizing' /\ ~watchdogTimer'
          /\ lastOp'.log.nStop = 0 /\ lastOp'.log.startOn = NoEngine
          /\ lastOp'.log.sched \in {<< >>, <<"restart">>}
          /\ ~isRecognizing => (lastOp'.log.sched = << >> /\ timers' = timers)]_vars

\* An on-end has found the manager inactive after a session.
C22_Witness ==
    /\ lastOp.op = "onend" /\ lastOp.log.clearInterval = 0 /\ lastOp.log.sched = << >>
    /\ sessionId # NoSession /\ ~manualStop /\ ~isRecognizing

\* C23: with restarts from on-end, on-error and the watchdog pending together,
\* every safeRestart leaves the state cleared (inactive, watchdog disarmed)
\* before the start is requested, and the settling callback never gives a start
\* command to a handle that has been started and has not ended.
C23_RestartsDoNotRace ==
    /\ lastOp.op = "restartTimer" => (~isRecognizing /\ ~watchdogTimer)
    /\ lastOp.op = "settleTimer" => ~lastOp.log.startThrew

\* C24: when the settling callback of start() throws (the start command is
\* refused by a handle that is started, or the handle is null), the manager ends
\* inactive with the watchdog disarmed, the error ABORTED is set, no timer is
\* scheduled and no engine gets a stop command.
C24_StartThrowHandled ==
    [][(lastOp'.op = "settleTimer" /\ (lastOp'.log.startThrew \/ recognition = NoEngine)) =>
          /\ ~isRecognizing' /\ ~watchdogTimer'
          /\ lastOp'.log.error = "ABORTED"
          /\ lastOp'.log.sched = << >> /\ Len(timers') = Len(timers) - 1
          /\ lastOp'.log.nStop = 0 /\ lastOp'.log.created = NoEngine
          /\ engState' = engState /\ recognition' = recognition]_vars

\* The start command was refused while the manager was active.
C24_Witness ==
    /\ lastOp.op = "settleTimer" /\ lastOp.log.startThrew /\ lastOp.log.error = "ABORTED"
    /\ lastOp.log.clearInterval = 1 /\ ~isRecognizing /\ timers = << >>

\* C25: while the handle the manager holds has delivered on-start and has
\* neither ended nor been given a stop command, the manager is active and the
\* watchdog is armed.
C25_RunningHandleIsActive ==
    (recognition # NoEngine /\ engState[recognition] = "running")
        => (isRecognizing /\ watchdogTimer)

\* C26: after stop() has returned and before the next on-start (or start() call),
\* no result of the engine and no conversion that ends publishes interim or
\* final text or appends to the history.
C26_NoPublishAfterStop ==
    (halted = "stop" /\ lastOp.op \in {"onresult", "conversionDone"})
        => /\ lastOp.log.appended = 0
           /\ lastOp.log.pub \cap {"interimTextRecognized", "textRecognized"} = {}

\* C27: after destroy() has returned and until the application calls start()
\* (or another method), no timer callback creates an engine handle or gives an
\* engine a start command.
C27_NothingStartsAfterDestroy ==
    halted = "destroyed" =>
        (lastOp.log.created = NoEngine /\ lastOp.log.startOn = NoEngine)

\* C28: every history entry, and so every final-text event, carries a non-empty
\* original text; a final transcript that is empty after trimming and cleaning
\* appends nothing, starts no conversion and publishes nothing.
C28_NonEmptyHistoryText ==
    /\ \A i \in 1..Len(history) : history[i].originalText # NoText
    /\ \A i \in 1..Len(conversions) : conversions[i].text # NoText
    /\ (/\ lastOp.op = "onresult"
        /\ cleanPinyinFromText(trimChinese(lastOp.arg.final)) = NoText)
          => (lastOp.log.appended = 0 /\ lastOp.log.pub = {} /\ lastOp.log.sched = << >>)
====
